---- MODULE Spec2Model ----
(***************************************************************************)
(* Model of graph/src/graph_adj.h: the adjacency-list graph GraphAdj<T>    *)
(* (directed) and its subclass UdGraphAdj<T> (undirected), with T = int.   *)
(*                                                                         *)
(* A linked list of Edge nodes is modelled as the sequence of its nodes in *)
(* list order; a NULL head is the empty sequence.  vertices_ is the vector *)
(* of GraphAdjVertex, hash_ the unordered_map from key to vector index     *)
(* (0-based, as in the code).                                              *)
(*                                                                         *)
(* A failed assert() aborts the process: fault "assert_distinct" for the   *)
(* asserts that two keys differ, "assert_weight" for weight1 == weight2 in *)
(* disconnect, "assert_even" for count % 2 == 0 in countEdge.  A read      *)
(* through a NULL pointer stops the process with a memory fault (fault     *)
(* "segfault"); the std::invalid_argument of isConnected is fault          *)
(* "exception".  A faulted process takes no further step.                  *)
(*                                                                         *)
(* last, nops and nother are history variables: the last call with its     *)
(* arguments and returned value, the number of connect, disconnect and     *)
(* collapse calls so far, and the number of those that were disconnect or  *)
(* collapse calls.                                                         *)
(***************************************************************************)
EXTENDS Integers, Sequences, FiniteSets, TLC

VARIABLES kind, vertices_, hash_, fault, last, graph_reversed, nops, nother

vars == <<kind, vertices_, hash_, fault, last, graph_reversed, nops, nother>>

\* ---- bounds of the model ----
MaxKey == 3
MaxCollapseKey == 4
MaxWideKey == 5
MaxWeight == 2
MaxDistance == 2
MaxOps == 4

Keys == 1..MaxKey
CollapseKeys == 1..MaxCollapseKey
WideKeys == 1..MaxWideKey
Weights == 1..MaxWeight
Distances == 1..MaxDistance

\* ---- construction of nodes ----

newEdge(value, weight, distance) ==
  [value |-> value, weight |-> weight, distance |-> distance]

newGraphAdjVertex(value) ==
  [value |-> value, visited |-> FALSE, next |-> <<>>]

\* the state of one graph object right after GraphAdj() / UdGraphAdj()
GraphAdj_new == [vertices_ |-> <<>>, hash_ |-> <<>>, fault |-> "none"]

\* ---- vertex store ----

\* index of the vertex in vertices_, or -1 for the NULL pointer
getVtx(S, value) ==
  IF value \in DOMAIN S.hash_ THEN S.hash_[value] ELSE -1

\* the vertex record behind a non-NULL getVtx() pointer
Vtx(S, value) == S.vertices_[S.hash_[value] + 1]

\* the edge list of a vertex: v->next
NextOf(S, value) == Vtx(S, value).next

SetNext(S, value, list) ==
  [S EXCEPT !.vertices_[S.hash_[value] + 1].next = list]

\* addEdge lines 184-196: push_back a new vertex when the key is unknown
pushVertex(S, value) ==
  IF getVtx(S, value) # -1 THEN S
  ELSE [S EXCEPT !.vertices_ = Append(S.vertices_, newGraphAdjVertex(value)),
                 !.hash_ = S.hash_ @@ (value :> Len(S.vertices_))]

reset(S) ==
  [S EXCEPT !.vertices_ =
     [i \in 1..Len(S.vertices_) |-> [S.vertices_[i] EXCEPT !.visited = FALSE]]]

\* ---- edge list engine ----

RECURSIVE insertMiddle(_, _)
\* insertMiddle without the branch current->value > head (lines 225-228): the
\* new node always goes to the end of the list
insertMiddle_append(rest, new_edge) ==
  IF rest = <<>> THEN <<new_edge>>
  ELSE IF Head(rest).value = new_edge.value
    THEN <<[Head(rest) EXCEPT !.weight = @ + new_edge.weight]>> \o Tail(rest)
  ELSE <<Head(rest)>> \o insertMiddle(Tail(rest), new_edge)

\* addEdge lines 219-236: the while loop from the second node on
insertMiddle(rest, new_edge) ==
  IF rest = <<>> THEN <<new_edge>>
  ELSE IF Head(rest).value = new_edge.value
    THEN <<[Head(rest) EXCEPT !.weight = @ + new_edge.weight]>> \o Tail(rest)
  ELSE IF Head(rest).value > new_edge.value
    THEN <<new_edge>> \o rest
  ELSE <<Head(rest)>> \o insertMiddle(Tail(rest), new_edge)

\* addEdge lines 202-237 on one list
insertEdge(list, new_edge) ==
  IF list = <<>> THEN <<new_edge>>
  ELSE IF new_edge.value = Head(list).value
    THEN <<[Head(list) EXCEPT !.weight = @ + new_edge.weight]>> \o Tail(list)
  ELSE IF new_edge.value < Head(list).value
    THEN <<new_edge>> \o list
  ELSE <<Head(list)>> \o insertMiddle(Tail(list), new_edge)

addEdge(S, tail, head, weight, distance) ==
  IF S.fault # "none" THEN S
  ELSE IF tail = head THEN [S EXCEPT !.fault = "assert_distinct"]
  ELSE LET S2 == pushVertex(pushVertex(S, tail), head)
       IN SetNext(S2, tail,
                  insertEdge(NextOf(S2, tail), newEdge(head, weight, distance)))

RECURSIVE removeMiddle(_, _)
\* delEdge lines 267-278: [list |-> the nodes left, weight |-> weight removed]
removeMiddle(rest, head) ==
  IF rest = <<>> THEN [list |-> <<>>, weight |-> 0]
  ELSE IF Head(rest).value = head
    THEN [list |-> Tail(rest), weight |-> Head(rest).weight]
  ELSE LET r == removeMiddle(Tail(rest), head)
       IN [list |-> <<Head(rest)>> \o r.list, weight |-> r.weight]

\* delEdge that unlinks the first node together with the nodes after it:
\* v_tail->next = NULL in place of v_tail->next = current->next (line 262)
delEdge_unlinkRest(S, tail, head) ==
  IF S.fault # "none" THEN [S |-> S, weight |-> 0]
  ELSE IF tail = head THEN [S |-> [S EXCEPT !.fault = "assert_distinct"], weight |-> 0]
  ELSE IF getVtx(S, tail) = -1 THEN [S |-> S, weight |-> 0]
  ELSE IF NextOf(S, tail) = <<>>
    THEN [S |-> [S EXCEPT !.fault = "segfault"], weight |-> 0]
  ELSE IF Head(NextOf(S, tail)).value = head
    THEN [S |-> SetNext(S, tail, <<>>),
          weight |-> Head(NextOf(S, tail)).weight]
  ELSE LET r == removeMiddle(Tail(NextOf(S, tail)), head)
       IN [S |-> SetNext(S, tail, <<Head(NextOf(S, tail))>> \o r.list),
           weight |-> r.weight]

\* delEdge: [S |-> state after, weight |-> returned weight]
delEdge(S, tail, head) ==
  IF S.fault # "none" THEN [S |-> S, weight |-> 0]
  ELSE IF tail = head THEN [S |-> [S EXCEPT !.fault = "assert_distinct"], weight |-> 0]
  ELSE IF getVtx(S, tail) = -1 THEN [S |-> S, weight |-> 0]
  ELSE IF NextOf(S, tail) = <<>>
    \* line 260 reads v_tail->next->value through a NULL v_tail->next
    THEN [S |-> [S EXCEPT !.fault = "segfault"], weight |-> 0]
  ELSE IF Head(NextOf(S, tail)).value = head
    THEN [S |-> SetNext(S, tail, Tail(NextOf(S, tail))),
          weight |-> Head(NextOf(S, tail)).weight]
  ELSE LET r == removeMiddle(Tail(NextOf(S, tail)), head)
       IN [S |-> SetNext(S, tail, <<Head(NextOf(S, tail))>> \o r.list),
           weight |-> r.weight]

clearList(S, value) ==
  IF S.fault # "none" THEN S
  \* line 147 reads v->next through the pointer getVtx() returned
  ELSE IF getVtx(S, value) = -1 THEN [S EXCEPT !.fault = "segfault"]
  ELSE SetNext(S, value, <<>>)

\* the while loops of isConnected: is there a node with this value
scanList(list, value) == \E i \in 1..Len(list) : list[i].value = value


\* ---- connectivity layer: directed graph (GraphAdj) ----

GraphAdj_isConnected(S, tail, head) ==
  IF getVtx(S, tail) = -1 THEN FALSE
  ELSE IF tail = head THEN TRUE
  ELSE scanList(NextOf(S, tail), head)

\* GraphAdj::connect without the isConnected test (line 463): a second
\* connect of the same pair adds its weight to the edge
GraphAdj_connect_merge(S, tail, head, weight, distance) ==
  [S |-> addEdge(S, tail, head, weight, distance), ret |-> TRUE]

\* [S |-> state after, ret |-> returned bool]
GraphAdj_connect(S, tail, head, weight, distance) ==
  IF GraphAdj_isConnected(S, tail, head) THEN [S |-> S, ret |-> FALSE]
  ELSE [S |-> addEdge(S, tail, head, weight, distance), ret |-> TRUE]

\* [S |-> state after, weight |-> returned weight]
GraphAdj_disconnect(S, tail, head) == delEdge(S, tail, head)

\* the base class collapse has an empty body
GraphAdj_collapse(S, src, dst) == S

RECURSIVE sumWeight(_)
sumWeight(list) ==
  IF list = <<>> THEN 0 ELSE Head(list).weight + sumWeight(Tail(list))

RECURSIVE sumAll(_)
\* the outer loop of countEdge over vertices_
sumAll(vs) ==
  IF vs = <<>> THEN 0 ELSE sumWeight(Head(vs).next) + sumAll(Tail(vs))

GraphAdj_countEdge(S) == [S |-> S, ret |-> sumAll(S.vertices_)]

\* ---- connectivity layer: undirected graph (UdGraphAdj) ----

\* [ret |-> returned bool, throws |-> std::invalid_argument was thrown]
UdGraphAdj_isConnected(S, first, second) ==
  IF getVtx(S, first) = -1 \/ getVtx(S, second) = -1
    THEN [ret |-> FALSE, throws |-> FALSE]
  ELSE IF first = second THEN [ret |-> TRUE, throws |-> FALSE]
  ELSE LET connected1 == scanList(NextOf(S, first), second)
           connected2 == scanList(NextOf(S, second), first)
       IN IF connected1 /\ connected2 THEN [ret |-> TRUE, throws |-> FALSE]
          ELSE IF connected1 \/ connected2 THEN [ret |-> FALSE, throws |-> TRUE]
          ELSE [ret |-> FALSE, throws |-> FALSE]

\* UdGraphAdj::connect without the isConnected test (line 711)
UdGraphAdj_connect_merge(S, first, second, weight, distance) ==
  IF first = second
    THEN [S |-> [S EXCEPT !.fault = "assert_distinct"], ret |-> FALSE]
  ELSE [S |-> addEdge(addEdge(S, first, second, weight, distance),
                      second, first, weight, distance),
        ret |-> TRUE]

UdGraphAdj_connect(S, first, second, weight, distance) ==
  IF first = second THEN [S |-> [S EXCEPT !.fault = "assert_distinct"], ret |-> FALSE]
  ELSE LET c == UdGraphAdj_isConnected(S, first, second)
       IN IF c.throws
            THEN [S |-> [S EXCEPT !.fault = "exception"], ret |-> FALSE]
          ELSE IF c.ret THEN [S |-> S, ret |-> FALSE]
          ELSE [S |-> addEdge(addEdge(S, first, second, weight, distance),
                              second, first, weight, distance),
                ret |-> TRUE]

UdGraphAdj_disconnect(S, first, second) ==
  IF S.fault # "none" THEN [S |-> S, weight |-> 0]
  ELSE IF first = second
    THEN [S |-> [S EXCEPT !.fault = "assert_distinct"], weight |-> 0]
  ELSE LET r1 == delEdge(S, first, second)
           r2 == delEdge(r1.S, second, first)
       IN IF r2.S.fault # "none" THEN [S |-> r2.S, weight |-> 0]
          ELSE IF r1.weight # r2.weight
            THEN [S |-> [r2.S EXCEPT !.fault = "assert_weight"], weight |-> 0]
          ELSE [S |-> r2.S, weight |-> r1.weight]

UdGraphAdj_countEdge(S) ==
  LET count == sumAll(S.vertices_)
  IN IF count % 2 # 0
       THEN [S |-> [S EXCEPT !.fault = "assert_even"], ret |-> 0]
     ELSE [S |-> S, ret |-> count \div 2]

\* ---- contraction engine ----

RECURSIVE collapseLoop(_, _, _, _)
\* collapseLoop that re-inserts dst -> x with weight 1 instead of
\* current->weight (line 763)
collapseLoop_unitWeight(S, current, src, dst) ==
  IF S.fault # "none" \/ current = <<>> THEN S
  ELSE LET r == delEdge(S, Head(current).value, src)
           S2 == addEdge(r.S, Head(current).value, dst, r.weight, 1)
           S3 == addEdge(S2, dst, Head(current).value, 1, 1)
       IN collapseLoop(S3, Tail(current), src, dst)

\* collapseLoop without the removal of x -> src (line 759): x -> dst gets the
\* weight of src -> x and x keeps its edge to src
collapseLoop_keepBackEdge(S, current, src, dst) ==
  IF S.fault # "none" \/ current = <<>> THEN S
  ELSE LET S2 == addEdge(S, Head(current).value, dst, Head(current).weight, 1)
           S3 == addEdge(S2, dst, Head(current).value, Head(current).weight, 1)
       IN collapseLoop(S3, Tail(current), src, dst)

\* collapseLoop that hands the distance of the src-x edge to addEdge in place
\* of the literal 1 (lines 760 and 763)
collapseLoop_carryDistance(S, current, src, dst) ==
  IF S.fault # "none" \/ current = <<>> THEN S
  ELSE LET r == delEdge(S, Head(current).value, src)
           S2 == addEdge(r.S, Head(current).value, dst, r.weight,
                         Head(current).distance)
           S3 == addEdge(S2, dst, Head(current).value, Head(current).weight,
                         Head(current).distance)
       IN collapseLoop(S3, Tail(current), src, dst)

\* collapse lines 756-766; current is the rest of src's list, which no call
\* in the loop touches (their tails are dst and current->value, never src)
collapseLoop(S, current, src, dst) ==
  IF S.fault # "none" \/ current = <<>> THEN S
  ELSE LET r == delEdge(S, Head(current).value, src)
           S2 == addEdge(r.S, Head(current).value, dst, r.weight, 1)
           S3 == addEdge(S2, dst, Head(current).value, Head(current).weight, 1)
       IN collapseLoop(S3, Tail(current), src, dst)

\* UdGraphAdj::collapse without clearList(src) (line 769)
UdGraphAdj_collapse_noClear(S, src, dst) ==
  IF src = dst THEN [S EXCEPT !.fault = "assert_distinct"]
  ELSE LET S1 == UdGraphAdj_disconnect(S, src, dst).S
       IN IF S1.fault # "none" THEN S1
          ELSE IF getVtx(S1, src) = -1 THEN [S1 EXCEPT !.fault = "segfault"]
          ELSE collapseLoop(S1, NextOf(S1, src), src, dst)

UdGraphAdj_collapse(S, src, dst) ==
  IF src = dst THEN [S EXCEPT !.fault = "assert_distinct"]
  ELSE LET S1 == UdGraphAdj_disconnect(S, src, dst).S
       IN IF S1.fault # "none" THEN S1
          \* line 755 reads getVtx(src)->next
          ELSE IF getVtx(S1, src) = -1 THEN [S1 EXCEPT !.fault = "segfault"]
          ELSE clearList(collapseLoop(S1, NextOf(S1, src), src, dst), src)

\* ---- traversal engine ----

setVisited(S, value) ==
  [S EXCEPT !.vertices_[S.hash_[value] + 1].visited = TRUE]

RECURSIVE bfsChildren(_, _, _, _)
\* bfsChildren that walks depth first: it scans the list of a vertex it
\* finds before it goes on to the next node, and queues nothing
bfsChildren_descend(S, current_node, track, visited) ==
  IF current_node = <<>> THEN [S |-> S, track |-> track, visited |-> visited]
  ELSE IF ~Vtx(S, Head(current_node).value).visited
    THEN LET r == bfsChildren(setVisited(S, Head(current_node).value),
                              NextOf(S, Head(current_node).value),
                              track,
                              Append(visited, Head(current_node).value))
         IN bfsChildren(r.S, Tail(current_node), r.track, r.visited)
  ELSE bfsChildren(S, Tail(current_node), track, visited)

\* breathFirstSearch lines 516-523: the scan of one vertex's edge list
bfsChildren(S, current_node, track, visited) ==
  IF current_node = <<>> THEN [S |-> S, track |-> track, visited |-> visited]
  ELSE IF ~Vtx(S, Head(current_node).value).visited
    THEN bfsChildren(setVisited(S, Head(current_node).value),
                     Tail(current_node),
                     Append(track, Head(current_node).value),
                     Append(visited, Head(current_node).value))
  ELSE bfsChildren(S, Tail(current_node), track, visited)

RECURSIVE bfsLoop(_, _, _)
\* breathFirstSearch lines 510-524: track is the queue, front first
bfsLoop(S, track, visited) ==
  IF track = <<>> THEN [S |-> S, ret |-> visited]
  ELSE LET r == bfsChildren(S, NextOf(S, Head(track)), Tail(track), visited)
       IN bfsLoop(r.S, r.track, r.visited)

\* [S |-> state after, ret |-> returned vector]
breathFirstSearch(S, value) ==
  IF getVtx(S, value) = -1 THEN [S |-> S, ret |-> <<>>]
  ELSE LET r == bfsLoop(setVisited(S, value), <<value>>, <<value>>)
       IN [S |-> reset(r.S), ret |-> r.ret]

RECURSIVE dfsNext(_, _)
\* dfsNext without the break (line 560): the scan goes on to the end of the
\* list and keeps the last unvisited vertex it found
dfsNext_noBreak(S, current_node) ==
  IF current_node = <<>> THEN 0
  ELSE IF dfsNext(S, Tail(current_node)) # 0
    THEN dfsNext(S, Tail(current_node))
  ELSE IF ~Vtx(S, Head(current_node).value).visited
    THEN Head(current_node).value
  ELSE 0

\* depthFirstSearch lines 553-563: value of the first node of the list whose
\* vertex is not visited, 0 when the scan reaches the end of the list
dfsNext(S, current_node) ==
  IF current_node = <<>> THEN 0
  ELSE IF ~Vtx(S, Head(current_node).value).visited
    THEN Head(current_node).value
  ELSE dfsNext(S, Tail(current_node))

RECURSIVE dfsLoop(_, _, _)
\* depthFirstSearch lines 549-577: tracker is the stack, top last; v and
\* current_vertex_value both follow tracker.top()
dfsLoop(S, tracker, sink) ==
  LET current_vertex_value == tracker[Len(tracker)]
      found == dfsNext(S, NextOf(S, current_vertex_value))
      retreat == found = 0
      S2 == IF retreat THEN S ELSE setVisited(S, found)
      tracker2 == IF retreat THEN SubSeq(tracker, 1, Len(tracker) - 1)
                  ELSE Append(tracker, found)
      sink2 == IF retreat THEN Append(sink, current_vertex_value) ELSE sink
  IN IF tracker2 = <<>> THEN [S |-> S2, ret |-> sink2]
     ELSE dfsLoop(setVisited(S2, tracker2[Len(tracker2)]), tracker2, sink2)

\* [S |-> state after, ret |-> returned vector]; the call to reset() at the
\* end of the function is commented out (line 579)
depthFirstSearch(S, value) ==
  IF getVtx(S, value) = -1 THEN [S |-> S, ret |-> <<>>]
  ELSE dfsLoop(setVisited(S, value), <<value>>, <<>>)

\* ---- reversal ----

\* connect() of the graph's class
connectOf(k, S, tail, head, weight, distance) ==
  IF k = "directed" THEN GraphAdj_connect(S, tail, head, weight, distance)
  ELSE UdGraphAdj_connect(S, tail, head, weight, distance)

RECURSIVE reverseList(_, _, _, _)
\* reverseGraph lines 97-100: connect(current_node->value, value) with the
\* default weight 1 and distance 1.0
reverseList(k, R, value, current_node) ==
  IF current_node = <<>> \/ R.fault # "none" THEN R
  ELSE reverseList(k,
                   connectOf(k, R, Head(current_node).value, value, 1, 1).S,
                   value, Tail(current_node))

RECURSIVE reverseFrom(_, _, _, _)
\* reverseGraph lines 94-101: the loop over the vertex indices i
reverseFrom(k, S, R, i) ==
  IF i > Len(S.vertices_) \/ R.fault # "none" THEN R
  ELSE reverseFrom(k, S,
                   reverseList(k, R, S.vertices_[i].value, S.vertices_[i].next),
                   i + 1)

reverseGraph(k, S) == reverseFrom(k, S, GraphAdj_new, 1)

\* ---- dispatch on the class of the graph object ----

isConnectedOf(k, S, tail, head) ==
  IF k = "directed"
    THEN [ret |-> GraphAdj_isConnected(S, tail, head), throws |-> FALSE]
  ELSE UdGraphAdj_isConnected(S, tail, head)

disconnectOf(k, S, tail, head) ==
  IF k = "directed" THEN GraphAdj_disconnect(S, tail, head)
  ELSE UdGraphAdj_disconnect(S, tail, head)

collapseOf(k, S, src, dst) ==
  IF k = "directed" THEN GraphAdj_collapse(S, src, dst)
  ELSE UdGraphAdj_collapse(S, src, dst)

countEdgeOf(k, S) ==
  IF k = "directed" THEN GraphAdj_countEdge(S) ELSE UdGraphAdj_countEdge(S)

\* ---- the state machine ----

\* the graph object as one record
G == [vertices_ |-> vertices_, hash_ |-> hash_, fault |-> fault]

\* the record of the last call: its name, arguments and returned value
Call(op, a, b, weight, distance, retb, reti, rets) ==
  [op |-> op, a |-> a, b |-> b, weight |-> weight, distance |-> distance,
   retb |-> retb, reti |-> reti, rets |-> rets]

Init ==
  /\ kind \in {"directed", "undirected"}
  /\ vertices_ = GraphAdj_new.vertices_
  /\ hash_ = GraphAdj_new.hash_
  /\ fault = GraphAdj_new.fault
  /\ last = Call("new", 0, 0, 0, 0, FALSE, 0, <<>>)
  /\ graph_reversed = GraphAdj_new
  /\ nops = 0
  /\ nother = 0

\* the graph object takes the state S
Becomes(S) ==
  /\ vertices_' = S.vertices_
  /\ hash_' = S.hash_
  /\ fault' = S.fault

Connect(a, b, weight, distance) ==
  /\ fault = "none"
  /\ nops < MaxOps
  /\ LET r == connectOf(kind, G, a, b, weight, distance)
     IN /\ Becomes(r.S)
        /\ last' = Call("connect", a, b, weight, distance, r.ret, 0, <<>>)
  /\ nops' = nops + 1
  /\ graph_reversed' = GraphAdj_new
  /\ UNCHANGED <<kind, nother>>

Disconnect(a, b) ==
  /\ fault = "none"
  /\ nops < MaxOps
  /\ LET r == disconnectOf(kind, G, a, b)
     IN /\ Becomes(r.S)
        /\ last' = Call("disconnect", a, b, 0, 0, FALSE, r.weight, <<>>)
  /\ nops' = nops + 1
  /\ nother' = nother + 1
  /\ graph_reversed' = GraphAdj_new
  /\ UNCHANGED kind

Collapse(src, dst) ==
  /\ fault = "none"
  /\ nops < MaxOps
  /\ Becomes(collapseOf(kind, G, src, dst))
  /\ last' = Call("collapse", src, dst, 0, 0, FALSE, 0, <<>>)
  /\ nops' = nops + 1
  /\ nother' = nother + 1
  /\ graph_reversed' = GraphAdj_new
  /\ UNCHANGED kind

IsConnected(a, b) ==
  /\ fault = "none"
  /\ LET r == isConnectedOf(kind, G, a, b)
     IN /\ Becomes([G EXCEPT !.fault = IF r.throws THEN "exception" ELSE "none"])
        /\ last' = Call("isConnected", a, b, 0, 0, r.ret, 0, <<>>)
  /\ graph_reversed' = GraphAdj_new
  /\ UNCHANGED <<kind, nops, nother>>

CountEdge ==
  /\ fault = "none"
  /\ LET r == countEdgeOf(kind, G)
     IN /\ Becomes(r.S)
        /\ last' = Call("countEdge", 0, 0, 0, 0, FALSE, r.ret, <<>>)
  /\ graph_reversed' = GraphAdj_new
  /\ UNCHANGED <<kind, nops, nother>>

BreathFirstSearch(value) ==
  /\ fault = "none"
  /\ LET r == breathFirstSearch(G, value)
     IN /\ Becomes(r.S)
        /\ last' = Call("breathFirstSearch", value, 0, 0, 0, FALSE, 0, r.ret)
  /\ graph_reversed' = GraphAdj_new
  /\ UNCHANGED <<kind, nops, nother>>

DepthFirstSearch(value) ==
  /\ fault = "none"
  /\ LET r == depthFirstSearch(G, value)
     IN /\ Becomes(r.S)
        /\ last' = Call("depthFirstSearch", value, 0, 0, 0, FALSE, 0, r.ret)
  /\ graph_reversed' = GraphAdj_new
  /\ UNCHANGED <<kind, nops, nother>>

ReverseGraph ==
  /\ fault = "none"
  /\ graph_reversed' = reverseGraph(kind, G)
  /\ last' = Call("reverseGraph", 0, 0, 0, 0, FALSE, 0, <<>>)
  /\ UNCHANGED <<kind, vertices_, hash_, fault, nops, nother>>

\* reverseGraph(reverseGraph(graph)): the reversal of the reversed graph
ReverseGraphTwice ==
  /\ fault = "none"
  /\ graph_reversed' = reverseGraph(kind, reverseGraph(kind, G))
  /\ last' = Call("reverseGraphTwice", 0, 0, 0, 0, FALSE, 0, <<>>)
  /\ UNCHANGED <<kind, vertices_, hash_, fault, nops, nother>>

\* the structural operations, which change the vertex store and the lists
Next ==
  \/ \E a \in Keys, b \in Keys, weight \in Weights, distance \in Distances :
       Connect(a, b, weight, distance)
  \/ \E a \in Keys, b \in Keys : Disconnect(a, b)
  \/ \E src \in Keys, dst \in Keys : Collapse(src, dst)

Spec == Init /\ [][Next]_vars

\* the structural operations with the two queries on connectivity and weight
NextQuery ==
  \/ \E a \in Keys, b \in Keys, weight \in Weights : Connect(a, b, weight, 1)
  \/ \E a \in Keys, b \in Keys : Disconnect(a, b)
  \/ \E src \in Keys, dst \in Keys : Collapse(src, dst)
  \/ \E a \in Keys, b \in Keys : IsConnected(a, b)
  \/ CountEdge

SpecQuery == Init /\ [][NextQuery]_vars

\* traversal of graphs of every shape; the searches do not read weight or
\* distance, so the edges are made with the default weight and distance
NextTraversal ==
  \/ \E a \in Keys, b \in Keys : Connect(a, b, 1, 1)
  \/ \E a \in Keys, b \in Keys : Disconnect(a, b)
  \/ \E value \in Keys : BreathFirstSearch(value)
  \/ \E value \in Keys : DepthFirstSearch(value)

SpecTraversal == Init /\ [][NextTraversal]_vars

\* breadth-first and depth-first search over MaxCollapseKey keys: graphs
\* with vertices two hops from the start beside vertices one hop from it
NextLevel ==
  \/ \E a \in CollapseKeys, b \in CollapseKeys : Connect(a, b, 1, 1)
  \/ \E value \in CollapseKeys : BreathFirstSearch(value)
  \/ \E value \in CollapseKeys : DepthFirstSearch(value)

SpecLevel == Init /\ [][NextLevel]_vars

\* reversal of graphs built by connect calls
NextReverse ==
  \/ \E a \in Keys, b \in Keys, weight \in Weights, distance \in Distances :
       Connect(a, b, weight, distance)
  \/ ReverseGraph
  \/ ReverseGraphTwice

SpecReverse == Init /\ [][NextReverse]_vars

\* the structural operations over more keys, with the default weight and
\* distance: edge lists of up to MaxWideKey - 1 nodes
NextWide ==
  \/ \E a \in WideKeys, b \in WideKeys : Connect(a, b, 1, 1)
  \/ \E a \in WideKeys, b \in WideKeys : Disconnect(a, b)
  \/ \E src \in WideKeys, dst \in WideKeys : Collapse(src, dst)

SpecWide == Init /\ [][NextWide]_vars

\* an undirected graph under the structural operations, with weights and
\* the default distance, over MaxCollapseKey keys: a collapse meets vertices
\* other than src, dst and their common neighbour
InitUndirected == Init /\ kind = "undirected"

NextCollapse ==
  \/ \E a \in CollapseKeys, b \in CollapseKeys, weight \in Weights :
       Connect(a, b, weight, 1)
  \/ \E a \in CollapseKeys, b \in CollapseKeys : Disconnect(a, b)
  \/ \E src \in CollapseKeys, dst \in CollapseKeys : Collapse(src, dst)

SpecCollapse == InitUndirected /\ [][NextCollapse]_vars

\* an undirected graph under the structural operations, with distances and
\* the default weight, over MaxCollapseKey keys
NextDistance ==
  \/ \E a \in CollapseKeys, b \in CollapseKeys, distance \in Distances :
       Connect(a, b, 1, distance)
  \/ \E a \in CollapseKeys, b \in CollapseKeys : Disconnect(a, b)
  \/ \E src \in CollapseKeys, dst \in CollapseKeys : Collapse(src, dst)

SpecDistance == InitUndirected /\ [][NextDistance]_vars

\* ---- observations used by the properties ----

IsVertex(S, a) == a \in DOMAIN S.hash_

\* positions in a's list of the nodes whose head key is b
EdgeIdx(S, a, b) ==
  IF IsVertex(S, a)
    THEN {i \in 1..Len(NextOf(S, a)) : NextOf(S, a)[i].value = b}
  ELSE {}

HasEdge(S, a, b) == EdgeIdx(S, a, b) # {}

\* the first node a->b of a's list
TheEdge(S, a, b) ==
  NextOf(S, a)[CHOOSE i \in EdgeIdx(S, a, b) : \A j \in EdgeIdx(S, a, b) : i <= j]

WeightOf(S, a, b) == IF HasEdge(S, a, b) THEN TheEdge(S, a, b).weight ELSE 0

\* the edge a->b as <<weight, distance>>, <<>> when there is none
EdgeOf(S, a, b) ==
  IF HasEdge(S, a, b)
    THEN <<TheEdge(S, a, b).weight, TheEdge(S, a, b).distance>>
  ELSE <<>>

ListOf(S, a) == IF IsVertex(S, a) THEN NextOf(S, a) ELSE <<>>

Ascending(list) ==
  \A i \in 1..(Len(list) - 1) : list[i].value < list[i + 1].value

\* ---- properties ----

\* C1: in an undirected graph, after calls that returned normally, a->b is in
\* a's list exactly when b->a is in b's list, with the same weight; isConnected
\* does not throw, and the asserts weight1 == weight2 and count % 2 == 0 hold.
C1_Symmetric ==
  kind = "undirected" =>
    /\ fault \notin {"exception", "assert_weight", "assert_even"}
    /\ fault = "none" =>
         /\ \A a \in CollapseKeys, b \in CollapseKeys :
              a # b => /\ HasEdge(G, a, b) <=> HasEdge(G, b, a)
                       /\ WeightOf(G, a, b) = WeightOf(G, b, a)
                       /\ ~UdGraphAdj_isConnected(G, a, b).throws
         /\ UdGraphAdj_countEdge(G).S.fault = "none"

\* an undirected collapse has merged two edges into one of weight 3
C1_Witness ==
  /\ kind = "undirected"
  /\ fault = "none"
  /\ last.op = "collapse"
  /\ \E a \in CollapseKeys, b \in CollapseKeys :
       a # b /\ WeightOf(G, a, b) = 3 /\ WeightOf(G, b, a) = 3

\* C2: after connect, disconnect and collapse calls on either kind of graph,
\* every edge list is strictly ascending by head key.
C2_Sorted ==
  fault = "none" =>
    \A i \in 1..Len(vertices_) : Ascending(vertices_[i].next)

\* connect(1,2), connect(1,4), connect(5,3), collapse(5,1) on an undirected
\* graph: the collapse has put 3 between 2 and 4 in the list of 1
C2_Witness ==
  /\ kind = "undirected"
  /\ fault = "none"
  /\ nops = 4
  /\ last.op = "collapse" /\ last.a = 5 /\ last.b = 1
  /\ Len(vertices_) = 5
  /\ vertices_[4].value = 5 /\ vertices_[5].value = 3
  /\ Len(ListOf(G, 1)) = 3
  /\ ListOf(G, 1)[1].value = 2
  /\ ListOf(G, 1)[2].value = 3
  /\ ListOf(G, 1)[3].value = 4

\* C3: on an undirected graph built by connect calls, collapse(src, dst) of
\* two distinct vertices changes countEdge() by minus the weight of the
\* direct src-dst edge, by 0 when there was none.
C3_CollapseWeight ==
  [][(/\ kind = "undirected"
      /\ nother = 0
      /\ last'.op = "collapse"
      /\ last'.a # last'.b
      /\ IsVertex(G, last'.a)
      /\ IsVertex(G, last'.b))
     => /\ fault' = "none"
        /\ UdGraphAdj_countEdge(G').S.fault = "none"
        /\ UdGraphAdj_countEdge(G').ret =
             UdGraphAdj_countEdge(G).ret - WeightOf(G, last'.a, last'.b)]_vars

\* connect(1,2), then 2-3 and 1-3 with weight MaxWeight each, collapse(1,2):
\* the 1-2 edge is gone and 2-3 carries both weights
C3_Witness ==
  /\ kind = "undirected"
  /\ fault = "none"
  /\ nops = 4 /\ nother = 1
  /\ last.op = "collapse" /\ last.a = 1 /\ last.b = 2
  /\ Len(vertices_) = 3
  /\ vertices_[1].value = 1 /\ vertices_[2].value = 2 /\ vertices_[3].value = 3
  /\ WeightOf(G, 2, 3) = 2 * MaxWeight
  /\ UdGraphAdj_countEdge(G).ret = 2 * MaxWeight

\* C4: disconnect(a, b), a # b, with no edge a->b returns 0 and changes
\* nothing, whether a is no vertex, has an empty list or has other edges.
C4_DisconnectAbsent ==
  [][(/\ last'.op = "disconnect"
      /\ last'.a # last'.b
      /\ ~HasEdge(G, last'.a, last'.b))
     => /\ fault' = "none"
        /\ last'.reti = 0
        /\ vertices_' = vertices_
        /\ hash_' = hash_]_vars

\* C5: connect(a, b, w, d), a # b, of a connected pair returns false and
\* changes nothing; of an unconnected pair it returns true and adds a->b with
\* weight w and distance d, and b->a likewise on an undirected graph, and
\* no other edge.
C5_ConnectFailsClosed ==
  [][(last'.op = "connect" /\ last'.a # last'.b)
     => IF isConnectedOf(kind, G, last'.a, last'.b).ret
          THEN /\ fault' = "none"
               /\ ~last'.retb
               /\ vertices_' = vertices_
               /\ hash_' = hash_
        ELSE /\ fault' = "none"
             /\ last'.retb
             /\ isConnectedOf(kind, G', last'.a, last'.b).ret
             /\ EdgeOf(G', last'.a, last'.b) = <<last'.weight, last'.distance>>
             /\ EdgeOf(G', last'.b, last'.a) =
                  IF kind = "undirected"
                    THEN <<last'.weight, last'.distance>>
                  ELSE EdgeOf(G, last'.b, last'.a)
             /\ \A x \in Keys, y \in Keys :
                  {x, y} # {last'.a, last'.b}
                    => EdgeOf(G', x, y) = EdgeOf(G, x, y)]_vars

\* a connect of a connected pair of an undirected graph has returned false,
\* and the edge has neither the weight nor the distance of the call
C5_Witness ==
  /\ kind = "undirected"
  /\ fault = "none"
  /\ last.op = "connect" /\ last.a # last.b /\ ~last.retb
  /\ HasEdge(G, last.a, last.b)
  /\ TheEdge(G, last.a, last.b).weight # last.weight
  /\ TheEdge(G, last.a, last.b).distance # last.distance
  /\ EdgeOf(G, last.b, last.a) = EdgeOf(G, last.a, last.b)

\* the calls of C6: a connect that made the edge a->b of a directed graph,
\* followed by a connect of the same ordered pair
C6_Reconnect ==
  /\ kind = "directed"
  /\ fault = "none"
  /\ last.op = "connect" /\ last.retb
  /\ last'.op = "connect" /\ last'.a = last.a /\ last'.b = last.b

\* C6 as stated: connect(a, b, w1) then connect(a, b, w2) on a directed graph
\* leaves one edge a->b of weight w1 + w2.
C6_MergeOnReconnect ==
  [][C6_Reconnect
     => /\ fault' = "none"
        /\ Cardinality(EdgeIdx(G', last'.a, last'.b)) = 1
        /\ WeightOf(G', last'.a, last'.b) = last.weight + last'.weight]_vars

\* C6 as amended: the second connect returns false and changes nothing; the
\* one edge a->b keeps the weight w1.
C6_ReconnectRefused ==
  [][C6_Reconnect
     => /\ fault' = "none"
        /\ ~last'.retb
        /\ vertices_' = vertices_
        /\ hash_' = hash_
        /\ Cardinality(EdgeIdx(G', last'.a, last'.b)) = 1
        /\ WeightOf(G', last'.a, last'.b) = last.weight]_vars

\* connect(1,2,2) then connect(1,2,1) on a directed graph: one edge 1->2, of
\* weight 2
C6_Witness ==
  /\ kind = "directed"
  /\ fault = "none"
  /\ nops = 2
  /\ last.op = "connect" /\ last.a = 1 /\ last.b = 2 /\ last.weight = 1
  /\ ~last.retb
  /\ Len(ListOf(G, 1)) = 1
  /\ WeightOf(G, 1, 2) = 2

\* C7: collapse(src, dst) of two distinct vertices of an undirected graph that
\* both have edges empties src's list, leaves no edge to src, adds the weight
\* of src-x to dst-x in dst's and in x's list for every other vertex x, and
\* leaves the edges between other vertices as they were.
C7_Collapse ==
  [][(/\ kind = "undirected"
      /\ last'.op = "collapse"
      /\ last'.a # last'.b
      /\ ListOf(G, last'.a) # <<>>
      /\ ListOf(G, last'.b) # <<>>)
     => LET src == last'.a
            dst == last'.b
            others == CollapseKeys \ {src, dst}
        IN /\ fault' = "none"
           /\ IsVertex(G', src)
           /\ ListOf(G', src) = <<>>
           /\ \A x \in CollapseKeys : ~HasEdge(G', x, src)
           /\ \A x \in others :
                /\ WeightOf(G', dst, x) =
                     WeightOf(G, dst, x) + WeightOf(G, src, x)
                /\ WeightOf(G', x, dst) =
                     WeightOf(G, x, dst) + WeightOf(G, x, src)
                /\ HasEdge(G', dst, x)
                     <=> (HasEdge(G, dst, x) \/ HasEdge(G, src, x))
                /\ HasEdge(G', x, dst)
                     <=> (HasEdge(G, x, dst) \/ HasEdge(G, x, src))
                /\ Cardinality(EdgeIdx(G', dst, x)) <= 1
                /\ Cardinality(EdgeIdx(G', x, dst)) <= 1
           /\ \A x \in others, y \in others :
                EdgeOf(G', x, y) = EdgeOf(G, x, y)]_vars

\* edges 1-3 and 2-3 of weights 1 and 2 and edge 3-4, then collapse(1,2):
\* 1 is isolated, 2-3 has weight 3 in both lists, 3-4 is as it was
C7_Witness ==
  /\ kind = "undirected"
  /\ fault = "none"
  /\ nops = 4 /\ nother = 1
  /\ last.op = "collapse" /\ last.a = 1 /\ last.b = 2
  /\ IsVertex(G, 1) /\ ListOf(G, 1) = <<>>
  /\ WeightOf(G, 2, 3) = 3 /\ WeightOf(G, 3, 2) = 3
  /\ HasEdge(G, 3, 4) /\ HasEdge(G, 4, 3)
  /\ ~HasEdge(G, 3, 1)

\* C8: when a traversal returns, and so between any two calls, no vertex is
\* marked visited.
C8_NoneVisited ==
  fault = "none" => \A i \in 1..Len(vertices_) : ~vertices_[i].visited

\* the head keys of the edges of vertex a
Neighbours(S, a) == {ListOf(S, a)[i].value : i \in 1..Len(ListOf(S, a))}

RECURSIVE Closure(_, _)
\* the least set that holds the keys of set and the neighbours of its keys
Closure(S, set) ==
  LET more == set \cup UNION {Neighbours(S, a) : a \in set}
  IN IF more = set THEN set ELSE Closure(S, more)

Reachable(S, start) == Closure(S, {start})

RECURSIVE Finish(_, _, _)
\* the depth-first walk from v that goes to the smallest-key neighbour not
\* yet seen: [seen |-> keys discovered, order |-> keys in finishing order]
Finish(S, v, walk) ==
  LET unseen == Neighbours(S, v) \ walk.seen
  IN IF unseen = {}
       THEN [seen |-> walk.seen, order |-> Append(walk.order, v)]
     ELSE LET u == CHOOSE x \in unseen : \A y \in unseen : x <= y
          IN Finish(S, v, Finish(S, u, [walk EXCEPT !.seen = @ \cup {u}]))

PostOrder(S, start) == Finish(S, start, [seen |-> {start}, order |-> <<>>]).order

\* C9: depthFirstSearch(start) from a vertex, with no vertex marked visited,
\* returns the vertices reachable from start, each once, in the finishing
\* order of the walk that descends into the smallest-key unvisited neighbour
\* first; start is last.
C9_DepthFirstOrder ==
  [][(/\ last'.op = "depthFirstSearch"
      /\ IsVertex(G, last'.a)
      /\ \A i \in 1..Len(vertices_) : ~vertices_[i].visited)
     => /\ fault' = "none"
        /\ last'.rets = PostOrder(G, last'.a)
        /\ {last'.rets[i] : i \in 1..Len(last'.rets)} = Reachable(G, last'.a)
        /\ Len(last'.rets) = Cardinality(Reachable(G, last'.a))
        /\ last'.rets[Len(last'.rets)] = last'.a]_vars

\* the directed graph 1->2, 2->3, 1->3 with the cycle edge 3->1:
\* depthFirstSearch(1) has returned 3, 2, 1
C9_Witness ==
  /\ kind = "directed"
  /\ fault = "none"
  /\ nops = 4
  /\ last.op = "depthFirstSearch" /\ last.a = 1
  /\ last.rets = <<3, 2, 1>>
  /\ HasEdge(G, 1, 2) /\ HasEdge(G, 2, 3) /\ HasEdge(G, 1, 3) /\ HasEdge(G, 3, 1)

\* C10: the graph reverseGraph returns for a directed graph has the edge b->a
\* with weight w and distance d exactly when the graph has a->b with weight w
\* and distance d.
C10_ReverseKeepsEdges ==
  (kind = "directed" /\ last.op = "reverseGraph")
    => \A a \in Keys, b \in Keys :
         EdgeOf(graph_reversed, b, a) = EdgeOf(G, a, b)

\* C11: on an undirected graph, collapse(src, dst) with src # dst returns
\* without a fault from every state reached by connect, disconnect and
\* collapse calls, and leaves src with an empty edge list: also when src or
\* dst is a vertex with an empty list, and when src is not a vertex.
C11_CollapseCompletes ==
  [][(/\ kind = "undirected"
      /\ last'.op = "collapse"
      /\ last'.a # last'.b)
     => /\ fault' = "none"
        /\ ListOf(G', last'.a) = <<>>]_vars

\* C12: isConnected(a, a) returns true for every key a, on a directed and on
\* an undirected graph, whether or not a is a vertex of the graph.
C12_SelfConnected ==
  (last.op = "isConnected" /\ last.a = last.b)
    => (fault = "none" /\ last.retb)

\* C13: two calls of breathFirstSearch(start) in a row on an unmodified graph
\* return the same sequence, and after each of them no vertex is marked
\* visited.
C13_BreadthFirstTwice ==
  [][(last.op = "breathFirstSearch"
      /\ last'.op = "breathFirstSearch"
      /\ last'.a = last.a)
     => /\ fault' = "none"
        /\ last'.rets = last.rets
        /\ \A i \in 1..Len(vertices_) : ~vertices_[i].visited
        /\ \A i \in 1..Len(vertices_') : ~vertices_'[i].visited]_vars

RECURSIVE HopsFrom(_, _, _, _)
\* the number of edges of a shortest path from the keys of set to v, plus n;
\* v is reachable from set
HopsFrom(S, set, v, n) ==
  IF v \in set THEN n
  ELSE HopsFrom(S, set \cup UNION {Neighbours(S, a) : a \in set}, v, n + 1)

Hops(S, start, v) == HopsFrom(S, {start}, v, 0)

\* the position in seq of the first vertex that has an edge to v
FirstParent(S, seq, v) ==
  CHOOSE i \in 1..Len(seq) :
    /\ HasEdge(S, seq[i], v)
    /\ \A j \in 1..Len(seq) : HasEdge(S, seq[j], v) => i <= j

\* seq is the level order of S from start: start first, the reachable
\* vertices once each, by hop distance, the vertices found from one vertex
\* in ascending key order and vertices found from an earlier vertex first
LevelOrder(S, start, seq) ==
  /\ Len(seq) = Cardinality(Reachable(S, start))
  /\ {seq[i] : i \in 1..Len(seq)} = Reachable(S, start)
  /\ seq[1] = start
  /\ \A i \in 1..Len(seq), j \in 1..Len(seq) :
       i < j => Hops(S, start, seq[i]) <= Hops(S, start, seq[j])
  /\ \A i \in 2..Len(seq), j \in 2..Len(seq) :
       i < j => /\ FirstParent(S, seq, seq[i]) <= FirstParent(S, seq, seq[j])
                /\ FirstParent(S, seq, seq[i]) = FirstParent(S, seq, seq[j])
                     => seq[i] < seq[j]

\* C14: breathFirstSearch(start) from a vertex, with no vertex marked
\* visited, returns start first and then every vertex reachable from start
\* once and no other, in level order, the neighbours of one vertex in
\* ascending key order; for a start key that is not a vertex it returns the
\* empty sequence and changes nothing.
C14_BreadthFirstOrder ==
  [][(/\ last'.op = "breathFirstSearch"
      /\ \A i \in 1..Len(vertices_) : ~vertices_[i].visited)
     => /\ fault' = "none"
        /\ IF IsVertex(G, last'.a)
             THEN LevelOrder(G, last'.a, last'.rets)
           ELSE /\ last'.rets = <<>>
                /\ vertices_' = vertices_
                /\ hash_' = hash_]_vars

\* the directed graph 1->2, 1->3, 2->4: breathFirstSearch(1) has returned
\* 1, 2, 3, 4, with 3 at one hop before 4 at two hops
C14_Witness ==
  /\ kind = "directed"
  /\ fault = "none"
  /\ last.op = "breathFirstSearch" /\ last.a = 1
  /\ last.rets = <<1, 2, 3, 4>>
  /\ ListOf(G, 2) # <<>> /\ ListOf(G, 2)[1].value = 4
  /\ ListOf(G, 3) = <<>>
  /\ Len(ListOf(G, 1)) = 2
  /\ Hops(G, 1, 4) = 2

\* C15: after connect, disconnect and collapse calls with any arguments, on
\* a directed or an undirected graph, no edge list holds an edge to its own
\* vertex; after collapse(src, dst), dst has no edge to dst and none to src.
C15_NoSelfLoop ==
  /\ fault = "none" =>
       \A i \in 1..Len(vertices_) :
         ~HasEdge(G, vertices_[i].value, vertices_[i].value)
  /\ (fault = "none" /\ last.op = "collapse") =>
       /\ ~HasEdge(G, last.b, last.b)
       /\ ~HasEdge(G, last.b, last.a)

\* C16: on a directed graph, collapse(src, dst) with src # dst and src
\* having outgoing edges leaves src with an empty edge list and moves the
\* edges of src to dst, adding the weight to an edge dst already has.
C16_DirectedCollapse ==
  [][(/\ kind = "directed"
      /\ last'.op = "collapse"
      /\ last'.a # last'.b
      /\ ListOf(G, last'.a) # <<>>)
     => /\ fault' = "none"
        /\ IsVertex(G', last'.a)
        /\ ListOf(G', last'.a) = <<>>
        /\ \A x \in Keys \ {last'.a, last'.b} :
             WeightOf(G', last'.b, x) =
               WeightOf(G, last'.b, x) + WeightOf(G, last'.a, x)]_vars

\* C17: connect(a, a) fails on its assertion and leaves the graph unchanged,
\* on a directed and on an undirected graph, whether or not a is a vertex;
\* it never returns true or false.
C17_SelfLoopFailsFast ==
  [][(last'.op = "connect" /\ last'.a = last'.b)
     => /\ fault' = "assert_distinct"
        /\ vertices_' = vertices_
        /\ hash_' = hash_]_vars

\* C18: disconnect(a, b) of an existing edge returns the weight of the edge
\* and removes it: a->b alone on a directed graph, where an edge b->a stays,
\* a->b and b->a on an undirected graph. Every other edge and every vertex
\* entry is as before, a and b stay vertices also with empty lists, and
\* isConnected(a, b) is then false.
C18_DisconnectEdge ==
  [][(/\ last'.op = "disconnect"
      /\ last'.a # last'.b
      /\ HasEdge(G, last'.a, last'.b))
     => LET a == last'.a
            b == last'.b
            removed == IF kind = "directed" THEN {<<a, b>>}
                       ELSE {<<a, b>>, <<b, a>>}
        IN /\ fault' = "none"
           /\ last'.reti = WeightOf(G, a, b)
           /\ last'.reti > 0
           /\ \A x \in Keys, y \in Keys :
                EdgeOf(G', x, y) =
                  IF <<x, y>> \in removed THEN <<>> ELSE EdgeOf(G, x, y)
           /\ \A x \in Keys :
                Len(ListOf(G', x)) =
                  Len(ListOf(G, x))
                    - Cardinality({p \in removed : p[1] = x})
           /\ hash_' = hash_
           /\ Len(vertices_') = Len(vertices_)
           /\ \A i \in 1..Len(vertices_) :
                /\ vertices_'[i].value = vertices_[i].value
                /\ vertices_'[i].visited = vertices_[i].visited
           /\ IsVertex(G', a) /\ IsVertex(G', b)
           /\ isConnectedOf(kind, G', a, b) = [ret |-> FALSE, throws |-> FALSE]]_vars

\* connect(1,2,2), connect(2,1,1), connect(1,3,1) on a directed graph, then
\* disconnect(1,2) has returned 2: 1->3 and 2->1 are left
C18_Witness ==
  /\ kind = "directed"
  /\ fault = "none"
  /\ nops = 4 /\ nother = 1
  /\ last.op = "disconnect" /\ last.a = 1 /\ last.b = 2
  /\ last.reti = 2
  /\ ~HasEdge(G, 1, 2)
  /\ WeightOf(G, 2, 1) = 1
  /\ Len(ListOf(G, 1)) = 1 /\ HasEdge(G, 1, 3)

\* C19: for a directed graph built by connect calls alone,
\* reverseGraph(reverseGraph(g)) has the edges of g, each with the weight and
\* the distance it has in g.
C19_ReverseTwice ==
  (kind = "directed" /\ nother = 0 /\ last.op = "reverseGraphTwice")
    => /\ graph_reversed.fault = "none"
       /\ \A a \in Keys, b \in Keys :
            EdgeOf(graph_reversed, a, b) = EdgeOf(G, a, b)

\* C20: the sequence a traversal returns depends on the edges and on start
\* alone, not on the traversals run before: it is the sequence the same call
\* returns with no vertex marked visited, and a depthFirstSearch(s) that
\* follows a depthFirstSearch(s) returns the same sequence.
C20_Repeatable ==
  [][/\ last'.op = "breathFirstSearch"
          => last'.rets = breathFirstSearch(reset(G), last'.a).ret
     /\ last'.op = "depthFirstSearch"
          => last'.rets = depthFirstSearch(reset(G), last'.a).ret
     /\ (/\ last.op = "depthFirstSearch"
         /\ last'.op = "depthFirstSearch"
         /\ last'.a = last.a)
          => last'.rets = last.rets]_vars

\* the distance of the edge a->b, 0 when there is none
DistanceOf(S, a, b) == IF HasEdge(S, a, b) THEN TheEdge(S, a, b).distance ELSE 0

\* C21: an undirected collapse(src, dst) that returns leaves, for every
\* neighbour x of src other than dst, the edges dst->x and x->dst with the
\* distance they had when x and dst were connected before, and with distance
\* 1 when they were not, whatever distance src-x had; every other edge that
\* does not end at src keeps its weight and distance.
C21_CollapseDistance ==
  [][(/\ kind = "undirected"
      /\ last'.op = "collapse"
      /\ last'.a # last'.b
      /\ fault' = "none")
     => LET src == last'.a
            dst == last'.b
            others == CollapseKeys \ {src, dst}
            moved == {x \in others : HasEdge(G, src, x)}
        IN /\ \A x \in moved :
                /\ HasEdge(G', dst, x) /\ HasEdge(G', x, dst)
                /\ DistanceOf(G', dst, x) =
                     IF HasEdge(G, dst, x) THEN DistanceOf(G, dst, x) ELSE 1
                /\ DistanceOf(G', x, dst) =
                     IF HasEdge(G, x, dst) THEN DistanceOf(G, x, dst) ELSE 1
           /\ \A x \in others \ moved :
                /\ EdgeOf(G', dst, x) = EdgeOf(G, dst, x)
                /\ EdgeOf(G', x, dst) = EdgeOf(G, x, dst)
           /\ \A x \in others, y \in others :
                EdgeOf(G', x, y) = EdgeOf(G, x, y)]_vars

\* connect(1,3), connect(1,4) and connect(2,4) with distance 2, then
\* collapse(1,2): the new edge 2-3 has distance 1 and the merged edge 2-4 of
\* weight 2 has kept distance 2, in both lists
C21_Witness ==
  /\ kind = "undirected"
  /\ fault = "none"
  /\ nops = 4 /\ nother = 1
  /\ last.op = "collapse" /\ last.a = 1 /\ last.b = 2
  /\ ListOf(G, 1) = <<>>
  /\ EdgeOf(G, 2, 3) = <<1, 1>> /\ EdgeOf(G, 3, 2) = <<1, 1>>
  /\ EdgeOf(G, 2, 4) = <<2, 2>> /\ EdgeOf(G, 4, 2) = <<2, 2>>

====
